---- MODULE Spec2Model ----
(***************************************************************************)
(* ARnft (src/src/ARnft.ts): the multi-marker session orchestrator.        *)
(*                                                                         *)
(* The model follows the JavaScript run-to-completion semantics: every     *)
(* action is one macrotask (a host call, the dispatch of a "getConfig"     *)
(* event, the settling of a Camera View initialization, one frame callback)*)
(* or one microtask (the settling of the promise init returns).            *)
(* Sequences are 1-based: index i of the model is index i-1 of the code.   *)
(***************************************************************************)
EXTENDS Integers, Sequences, FiniteSets, TLC

\* ------------------------------------------------------------------ bounds
MaxOrch    == 2   \* orchestrators constructed in one run
MaxMarkers == 2   \* marker descriptors of one init call
MaxTicks   == 1   \* host frame callbacks served in one run
MaxCalls   == 1   \* setFPS / dispose / disposeNFT / disposeVideoStream calls in one run
MaxRepeats == 1   \* further dispose() calls repeating a dispose() on the same instance

\* ------------------------------------------------------------------ inputs
Undefined == "undefined"

Widths     == {640}
Heights    == {480}
ConfigUrls == {"config.json"}
Box == [name |-> "Box", markerUrl |-> "markerA"]
Cat == [name |-> "Cat", markerUrl |-> "markerB"]
FpsValues  == {30, 0, -5}

\* one entity list of each length 1..MaxMarkers: <<Box>>, <<Cat, Box>>, ...
EntityLists == { [i \in 1..n |-> IF (n - i) % 2 = 0 THEN Box ELSE Cat] : n \in 1..MaxMarkers }

\* Array.prototype.map over an entity list (lines 139-144)
markerUrlsOf(ents) == [i \in 1..Len(ents) |-> ents[i].markerUrl]
namesOf(ents)      == [i \in 1..Len(ents) |-> ents[i].name]

\* a JavaScript array read: undefined outside the array
At(arr, i) == IF i \in 1..Len(arr) THEN arr[i] ELSE Undefined

\* ----------------------------------------------------------------- numbers
Abs(n) == IF n < 0 THEN -n ELSE n

RECURSIVE Gcd(_, _)
Gcd(a, b) == IF b = 0 THEN a ELSE Gcd(b, a % b)

\* the JavaScript number a / b for integers a # 0 and b: an exact fraction in
\* lowest terms with a positive denominator, or +-Infinity (den = 0)
Quotient(a, b) ==
    IF b = 0 THEN [num |-> IF a < 0 THEN -1 ELSE 1, den |-> 0]
    ELSE LET g == Gcd(Abs(a), Abs(b))
             s == IF b < 0 THEN -1 ELSE 1
         IN  [num |-> (s * a) \div g, den |-> Abs(b) \div g]

DefaultFps == 15

\* --------------------------------------------------------------- the state
VARIABLES
    arnft,       \* the ARnft instances, in construction order
    entities,    \* the static ARnft.entities
    promise,     \* promise[o]: the promise init / initWithEntities returned for o
    initEvents,  \* "initARnft" events dispatched on the Event Target
    loads,       \* config loads requested from getConfig and not yet answered
    listeners,   \* the "getConfig" listeners of the Event Target, in registration order
    handlers,    \* the runs of the "getConfig" listener
    cameras,     \* the CameraViewRenderer instances
    workers,     \* the NFTWorker instances
    loops,       \* the update closures
    rafQueue,    \* requestAnimationFrame callbacks waiting for the next frame
    frames,      \* frame callbacks served so far
    stopCalls,   \* NFTWorker.stopNFT() calls issued
    lastCall     \* the latest setFPS / dispose / disposeNFT / disposeVideoStream call and its outcome

vars == << arnft, entities, promise, initEvents, loads, listeners, handlers,
           cameras, workers, loops, rafQueue, frames, stopCalls, lastCall >>

Orchs == 1..Len(arnft)

\* ------------------------------------------------------------ collaborators
\* new CameraViewRenderer(video): initialize not yet called
NewCamera(o) == [owner |-> o, init |-> "none", destroyCalls |-> 0]

\* CameraViewRenderer.destroy(): releases the capture resource
destroy(cam) == [cam EXCEPT !.destroyCalls = @ + 1]

\* new NFTWorker(markerUrl, width, height, uuid, name): binds identity only
NFTWorker(markerUrl, width, height, uuid, name, h) ==
    [markerUrl |-> markerUrl, width |-> width, height |-> height, uuid |-> uuid,
     name |-> name, handler |-> h, halted |-> FALSE, trace |-> << >>]

\* a call on a session: the method, the Camera View whose getImage() gave the
\* frame, the listener run whose code made the call, the number n of sessions
\* constructed so far, and whether the session had been halted before the call
Called(w, op, cam, h, n) ==
    [w EXCEPT !.trace = Append(@, [op |-> op, cam |-> cam, by |-> h, n |-> n,
                                   halted |-> w.halted])]

\* NFTWorker.stopNFT(): halts every session of the process
stopNFT(ws) == [i \in 1..Len(ws) |-> [ws[i] EXCEPT !.halted = TRUE]]

\* getConfig(configUrl): one load requested, answered later by one event
getConfig(pending, configUrl) == Append(pending, configUrl)

\* --------------------------------------------------------------- ARnft.ts
\* (mutant) the frame rate is stored as given, not converted to a period
setFPSRate(this, value) == [this EXCEPT !._fps = Quotient(value, 1)]
\* setFPS (lines 220-222)
setFPS(this, value) == [this EXCEPT !._fps = Quotient(1000, value)]

\* the constructor (lines 78-88); uuidv4() is modelled by the construction rank
constructor(width, height, configUrl, uuid) ==
    setFPS([width |-> width, height |-> height, configUrl |-> configUrl,
            uuid |-> uuid, _fps |-> Quotient(DefaultFps, 1),
            markerUrls |-> << >>, names |-> << >>,
            via |-> [op |-> "new", entities |-> << >>],
            appData |-> Undefined,
            controllers |-> [defined |-> FALSE, items |-> << >>],
            cameraView |-> 0],
           DefaultFps)

\* the promise's reactions run before any other task
NoMicrotask == \A o \in DOMAIN promise : promise[o].state # "pending"

\* what _initialize returns (line 217): a promise fulfilled with the instance
_initialize == [state |-> "fulfilled", value |-> "this"]

\* the catch of init / initWithEntities (lines 111-114, 145-148)
catch(outcome) ==
    IF outcome.state = "rejected" THEN [state |-> "rejected", value |-> "false"]
    ELSE outcome

\* (mutant) the Camera View is created while _initialize runs, not by the listener
InitializeEager(this) ==
    /\ arnft' = Append(arnft, [this EXCEPT !.cameraView = Len(cameras) + 1])
    /\ cameras' = Append(cameras, [owner |-> Len(arnft) + 1, init |-> "pending",
                                    destroyCalls |-> 0])
    /\ initEvents' = initEvents + 1
    /\ loads' = getConfig(loads, this.configUrl)
    /\ listeners' = Append(listeners, Len(arnft) + 1)
    /\ promise' = Append(promise, [state |-> "pending", value |-> Undefined])
    /\ UNCHANGED << handlers, workers, loops, rafQueue, frames, stopCalls, lastCall >>

\* the synchronous part of _initialize (lines 161-168), shared by both entry points
Initialize(this) ==
    /\ arnft' = Append(arnft, this)
    /\ initEvents' = initEvents + 1
    /\ loads' = getConfig(loads, this.configUrl)
    /\ listeners' = Append(listeners, Len(arnft) + 1)
    /\ promise' = Append(promise, [state |-> "pending", value |-> Undefined])
    /\ UNCHANGED << handlers, cameras, workers, loops, rafQueue, frames,
                    stopCalls, lastCall >>

\* (mutant) the constructor already requests the config load
NewLoading(width, height, configUrl) ==
    /\ NoMicrotask
    /\ Len(arnft) < MaxOrch
    /\ arnft' = Append(arnft, constructor(width, height, configUrl, Len(arnft) + 1))
    /\ promise' = Append(promise, [state |-> "none", value |-> Undefined])
    /\ loads' = getConfig(loads, configUrl)
    /\ UNCHANGED << entities, initEvents, listeners, handlers, cameras,
                    workers, loops, rafQueue, frames, stopCalls, lastCall >>
\* new ARnft(width, height, configUrl) by the host (lines 78-88)
New(width, height, configUrl) ==
    /\ NoMicrotask
    /\ Len(arnft) < MaxOrch
    /\ arnft' = Append(arnft, constructor(width, height, configUrl, Len(arnft) + 1))
    /\ promise' = Append(promise, [state |-> "none", value |-> Undefined])
    /\ UNCHANGED << entities, initEvents, loads, listeners, handlers, cameras,
                    workers, loops, rafQueue, frames, stopCalls, lastCall >>

\* ARnft.init (lines 102-115)
init(width, height, markerUrls, names, configUrl) ==
    /\ NoMicrotask
    /\ Len(arnft) < MaxOrch
    /\ Initialize([constructor(width, height, configUrl, Len(arnft) + 1)
                     EXCEPT !.markerUrls = markerUrls, !.names = names,
                            !.via = [op |-> "init", entities |-> << >>]])
    /\ UNCHANGED entities

\* (mutant) the new entities are added to the static list
setEntitiesUnion(old, ents) == [defined |-> TRUE, list |-> old.list \o ents]

\* the assignment of the static entity list (line 138)
setEntities(old, ents) == [defined |-> TRUE, list |-> ents]

\* ARnft.initWithEntities (lines 130-149)
initWithEntities(width, height, ents, configUrl) ==
    /\ NoMicrotask
    /\ Len(arnft) < MaxOrch
    /\ entities' = setEntities(entities, ents)
    /\ Initialize([constructor(width, height, configUrl, Len(arnft) + 1)
                     EXCEPT !.markerUrls = markerUrlsOf(entities'.list),
                            !.names = namesOf(entities'.list),
                            !.via = [op |-> "initWithEntities", entities |-> ents]])

\* the await of init / initWithEntities resumes (lines 111, 145)
Settle(o) ==
    /\ o \in Orchs
    /\ promise[o].state = "pending"
    /\ promise' = [promise EXCEPT ![o] = catch(_initialize)]
    /\ UNCHANGED << arnft, entities, initEvents, loads, listeners, handlers,
                    cameras, workers, loops, rafQueue, frames, stopCalls,
                    lastCall >>

\* ARnft.getEntities (lines 224-226)
getEntities == entities

\* the listener up to its await (lines 169-188): the config is stored, the Session
\* Set emptied, a Camera View created (camera c) and its initialization awaited
listener(this, config, c) ==
    [this EXCEPT !.appData = config,
                 !.controllers = [defined |-> TRUE, items |-> << >>],
                 !.cameraView = c]

Remove(seq, k) == [i \in 1..(Len(seq) - 1) |-> IF i < k THEN seq[i] ELSE seq[i + 1]]

\* position of orchestrator o among the listeners, 0 if it registered none
RECURSIVE Rank(_, _)
Rank(seq, o) ==
    IF seq = << >> THEN 0
    ELSE IF seq[Len(seq)] = o THEN Len(seq)
    ELSE Rank(SubSeq(seq, 1, Len(seq) - 1), o)

\* a run of the listener of orchestrator o is suspended at its await
Suspended(o) ==
    \E h \in 1..Len(handlers) : handlers[h].orch = o /\ handlers[h].state = "awaiting"

\* (mutant) the event is consumed by the listener registered first
ConfigReadyOnce(k) ==
    /\ NoMicrotask
    /\ k \in 1..Len(loads)
    /\ loads' = Remove(loads, k)
    /\ arnft' = [o \in Orchs |->
                    IF Rank(listeners, o) # 1 THEN arnft[o]
                    ELSE listener(arnft[o], loads[k], Len(cameras) + 1)]
    /\ cameras' = cameras \o [j \in 1..1 |->
                                [NewCamera(listeners[j]) EXCEPT !.init = "pending"]]
    /\ handlers' = handlers \o [j \in 1..1 |->
                                  [orch |-> listeners[j], camera |-> Len(cameras) + j,
                                   state |-> "awaiting",
                                   overlaps |-> Suspended(listeners[j])]]
    /\ UNCHANGED << entities, promise, initEvents, listeners, workers, loops,
                    rafQueue, frames, stopCalls, lastCall >>
\* a "getConfig" event is dispatched for the load at position k: every registered
\* listener runs, in registration order, up to its await (lines 168-188)
ConfigReady(k) ==
    /\ NoMicrotask
    /\ k \in 1..Len(loads)
    /\ loads' = Remove(loads, k)
    /\ arnft' = [o \in Orchs |->
                    IF Rank(listeners, o) = 0 THEN arnft[o]
                    ELSE listener(arnft[o], loads[k], Len(cameras) + Rank(listeners, o))]
    /\ cameras' = cameras \o [j \in 1..Len(listeners) |->
                                [NewCamera(listeners[j]) EXCEPT !.init = "pending"]]
    /\ handlers' = handlers \o [j \in 1..Len(listeners) |->
                                  [orch |-> listeners[j], camera |-> Len(cameras) + j,
                                   state |-> "awaiting",
                                   overlaps |-> Suspended(listeners[j])]]
    /\ UNCHANGED << entities, promise, initEvents, listeners, workers, loops,
                    rafQueue, frames, stopCalls, lastCall >>

\* one run of update (lines 210-213) for loop l: process the current frame on
\* this.controllers[index], then requestAnimationFrame(update). Reading process
\* off an undefined element throws before the loop is rescheduled.
update(st, l) ==
    LET lp   == st.loops[l]
        this == st.arnft[lp.orch]
    IN  IF lp.index \in 1..Len(this.controllers.items)
        THEN [st EXCEPT !.workers[this.controllers.items[lp.index]] =
                            Called(@, "tick", this.cameraView, lp.handler,
                                   Len(st.workers)),
                        !.rafQueue = Append(@, l)]
        ELSE [st EXCEPT !.loops[l].alive = FALSE]

\* (mutant) every session takes the first name
bindFirstName(this, index, h) ==
    NFTWorker(this.markerUrls[index], this.width, this.height, this.uuid,
              At(this.names, 1), h)

\* new NFTWorker(markerUrl, this.width, this.height, this.uuid, names[index])
\* (line 193)
bind(this, index, h) ==
    NFTWorker(this.markerUrls[index], this.width, this.height, this.uuid,
              At(this.names, index), h)

\* controllers[index].initialize(cameraPara, getImage(), ...) (lines 194-207)
initialize(w, cam, h, n) == Called(w, "initialize", cam, h, n)

\* (mutant) no priming call
primeSkipped(w, cam, h, n) == w

\* the priming controllers[index].process(getImage()) (line 209)
prime(w, cam, h, n) == Called(w, "process", cam, h, n)

\* one iteration of markerUrls.forEach (lines 192-215) in handler h of
\* orchestrator o, for the marker at position index
iteration(st, o, h, index) ==
    LET this  == st.arnft[o]
        w     == Len(st.workers) + 1
        \* line 193: controllers.push(new NFTWorker(...))
        s1    == [st EXCEPT
                    !.workers = Append(@, bind(this, index, h)),
                    !.arnft[o].controllers.items = Append(@, w)]
        ctl   == s1.arnft[o].controllers.items[index]
        \* lines 194-207: controllers[index].initialize(cameraPara, getImage(), ...)
        s2    == [s1 EXCEPT !.workers[ctl] = initialize(@, this.cameraView, h, w)]
        \* line 209: the priming controllers[index].process(getImage())
        s3    == [s2 EXCEPT !.workers[ctl] = prime(@, this.cameraView, h, w)]
        \* lines 210-214: the update closure is created and called once
        s4    == [s3 EXCEPT !.loops = Append(@, [orch |-> o, index |-> index,
                                                 handler |-> h, alive |-> TRUE])]
    IN  update(s4, Len(s4.loops))

\* markerUrls.forEach (lines 192-215), from position index on
RECURSIVE forEach(_, _, _, _)
forEach(st, o, h, index) ==
    IF index > Len(st.arnft[o].markerUrls) THEN st
    ELSE forEach(iteration(st, o, h, index), o, h, index + 1)

\* the listener after its await (lines 188-215), the Camera View being ready
resume(st, o, h) == forEach(st, o, h, 1)

\* (mutant) the catch logs the error and does not reject
rejectedSwallowed(st, o, h) == resume(st, o, h)

\* the listener after its await when the Camera View failed: the catch of lines
\* 188-191 returns Promise.reject(false), the await throws and the listener ends
rejected(st, o, h) == st

State == [arnft |-> arnft, workers |-> workers, loops |-> loops, rafQueue |-> rafQueue]

Apply(st) ==
    /\ arnft' = st.arnft
    /\ workers' = st.workers
    /\ loops' = st.loops
    /\ rafQueue' = st.rafQueue

\* cameraView.initialize(videoSettings) resolves for handler h
CameraResolve(h) ==
    /\ NoMicrotask
    /\ h \in 1..Len(handlers)
    /\ handlers[h].state = "awaiting"
    /\ cameras' = [cameras EXCEPT ![handlers[h].camera].init = "resolved"]
    /\ handlers' = [handlers EXCEPT ![h].state = "done"]
    /\ Apply(resume(State, handlers[h].orch, h))
    /\ UNCHANGED << entities, promise, initEvents, loads, listeners, frames,
                    stopCalls, lastCall >>

\* cameraView.initialize(videoSettings) rejects for handler h: the catch of
\* lines 188-191 rejects with false, which ends the listener
CameraReject(h) ==
    /\ NoMicrotask
    /\ h \in 1..Len(handlers)
    /\ handlers[h].state = "awaiting"
    /\ cameras' = [cameras EXCEPT ![handlers[h].camera].init = "rejected"]
    /\ handlers' = [handlers EXCEPT ![h].state = "rejected"]
    /\ Apply(rejected(State, handlers[h].orch, h))
    /\ UNCHANGED << entities, promise, initEvents, loads, listeners, frames,
                    stopCalls, lastCall >>

\* the host serves the next frame callback (requestAnimationFrame, line 212)
Tick ==
    /\ NoMicrotask
    /\ rafQueue # << >>
    /\ frames < MaxTicks
    /\ frames' = frames + 1
    /\ Apply(update([State EXCEPT !.rafQueue = Tail(@)], Head(rafQueue)))
    /\ UNCHANGED << entities, promise, initEvents, loads, listeners, handlers,
                    cameras, stopCalls, lastCall >>

\* the record of an instance-method call by the host: its rank among these calls,
\* the method, the instance, whether it ended in a TypeError, and the argument
\* of setFPS
Logged(op, o, threw) ==
    [seq |-> lastCall.seq + 1, op |-> op, orch |-> o, threw |-> threw, arg |-> 0]

\* the calls of one run: MaxCalls calls, and MaxRepeats further dispose() calls
\* that repeat the dispose() just made on the same instance
MayCall(op, o) ==
    \/ lastCall.seq < MaxCalls
    \/ /\ op = "dispose"
       /\ lastCall.op = "dispose"
       /\ lastCall.orch = o
       /\ lastCall.seq < MaxCalls + MaxRepeats

\* (mutant) setFPS drops the pending frame callbacks to re-time the loops
SetFPSRetimed(o, value) ==
    /\ NoMicrotask
    /\ o \in Orchs
    /\ MayCall("setFPS", o)
    /\ arnft' = [arnft EXCEPT ![o] = setFPS(@, value)]
    /\ lastCall' = [Logged("setFPS", o, FALSE) EXCEPT !.arg = value]
    /\ rafQueue' = << >>
    /\ UNCHANGED << entities, promise, initEvents, loads, listeners, handlers,
                    cameras, workers, loops, frames, stopCalls >>

\* setFPS called by the host (lines 220-222)
SetFPS(o, value) ==
    /\ NoMicrotask
    /\ o \in Orchs
    /\ MayCall("setFPS", o)
    /\ arnft' = [arnft EXCEPT ![o] = setFPS(@, value)]
    /\ lastCall' = [Logged("setFPS", o, FALSE) EXCEPT !.arg = value]
    /\ UNCHANGED << entities, promise, initEvents, loads, listeners, handlers,
                    cameras, workers, loops, rafQueue, frames, stopCalls >>

\* disposeVideoStream (lines 250-252): this.cameraView.destroy(), a TypeError
\* when this.cameraView is undefined
disposeVideoStream(st, o) ==
    IF st.arnft[o].cameraView = 0 THEN [st EXCEPT !.threw = TRUE]
    ELSE [st EXCEPT !.cameras[st.arnft[o].cameraView] = destroy(@)]

\* (mutant) disposeNFT also destroys the Camera View, if there is one
disposeNFTAndVideo(st, o) ==
    IF st.arnft[o].cameraView = 0
    THEN [st EXCEPT !.stopCalls = @ + 1, !.workers = stopNFT(@)]
    ELSE [st EXCEPT !.stopCalls = @ + 1, !.workers = stopNFT(@),
                    !.cameras[st.arnft[o].cameraView] = destroy(@)]
\* disposeNFT (lines 243-245): NFTWorker.stopNFT()
disposeNFT(st, o) ==
    [st EXCEPT !.stopCalls = @ + 1, !.workers = stopNFT(@)]

\* (mutant) dispose forgets the sessions
disposeVideoOnly(st, o) == disposeVideoStream(st, o)

\* dispose (lines 235-238): disposeVideoStream(), then disposeNFT() unless the
\* first call threw
dispose(st, o) ==
    LET s1 == disposeVideoStream(st, o)
    IN  IF s1.threw THEN s1 ELSE disposeNFT(s1, o)

Teardown == [arnft |-> arnft, cameras |-> cameras, workers |-> workers,
             stopCalls |-> stopCalls, threw |-> FALSE]

Torn(op, o, st) ==
    /\ NoMicrotask
    /\ o \in Orchs
    /\ MayCall(op, o)
    /\ cameras' = st.cameras
    /\ workers' = st.workers
    /\ stopCalls' = st.stopCalls
    /\ lastCall' = Logged(op, o, st.threw)
    /\ UNCHANGED << arnft, entities, promise, initEvents, loads, listeners,
                    handlers, loops, rafQueue, frames >>

Dispose(o)            == Torn("dispose", o, dispose(Teardown, o))
DisposeNFT(o)         == Torn("disposeNFT", o, disposeNFT(Teardown, o))
DisposeVideoStream(o) == Torn("disposeVideoStream", o, disposeVideoStream(Teardown, o))

\* ------------------------------------------------------- the specification
Init ==
    /\ arnft = << >>
    /\ entities = [defined |-> FALSE, list |-> << >>]
    /\ promise = << >>
    /\ initEvents = 0
    /\ loads = << >>
    /\ listeners = << >>
    /\ handlers = << >>
    /\ cameras = << >>
    /\ workers = << >>
    /\ loops = << >>
    /\ rafQueue = << >>
    /\ frames = 0
    /\ stopCalls = 0
    /\ lastCall = [seq |-> 0, op |-> "none", orch |-> 0, threw |-> FALSE, arg |-> 0]

Next ==
    \/ \E w \in Widths, h \in Heights, c \in ConfigUrls : New(w, h, c)
    \/ \E w \in Widths, h \in Heights, c \in ConfigUrls, e \in EntityLists :
            init(w, h, markerUrlsOf(e), namesOf(e), c)
    \/ \E w \in Widths, h \in Heights, c \in ConfigUrls, e \in EntityLists :
            initWithEntities(w, h, e, c)
    \/ \E o \in Orchs : Settle(o)
    \/ \E k \in 1..Len(loads) : ConfigReady(k)
    \/ \E h \in 1..Len(handlers) : CameraResolve(h)
    \/ \E h \in 1..Len(handlers) : CameraReject(h)
    \/ Tick
    \/ \E o \in Orchs, v \in FpsValues : SetFPS(o, v)
    \/ \E o \in Orchs : Dispose(o)
    \/ \E o \in Orchs : DisposeNFT(o)
    \/ \E o \in Orchs : DisposeVideoStream(o)

Spec == Init /\ [][Next]_vars

\* ----------------------------------------------------------------- claims
HandlersOf(o) == { h \in 1..Len(handlers) : handlers[h].orch = o }
WorkersBy(h)  == { w \in 1..Len(workers) : workers[w].handler = h }
WorkersOf(o)  == { w \in 1..Len(workers) : workers[w].handler \in HandlersOf(o) }
LoopsOf(o)    == { l \in 1..Len(loops) : loops[l].orch = o }
Destroyed     == { c \in 1..Len(cameras) : cameras[c].destroyCalls > 0 }
Halted        == { w \in 1..Len(workers) : workers[w].halted }
Max(S)        == CHOOSE x \in S : \A y \in S : y <= x

\* the marker descriptors the caller passed for orchestrator o
InputUrls(o) ==
    IF arnft[o].via.op = "initWithEntities"
    THEN [i \in 1..Len(arnft[o].via.entities) |-> arnft[o].via.entities[i].markerUrl]
    ELSE arnft[o].markerUrls
InputNames(o) ==
    IF arnft[o].via.op = "initWithEntities"
    THEN [i \in 1..Len(arnft[o].via.entities) |-> arnft[o].via.entities[i].name]
    ELSE arnft[o].names

\* C1: once config-ready has fired once for an orchestrator given N descriptors and
\* its Camera View initialization has succeeded, exactly N sessions have been
\* constructed for it, and the session at index i of its Session Set is bound to
\* locator i and name i of the input, with the orchestrator's width, height and
\* identity.
C1_SessionsBound ==
    \A o \in Orchs : \A h \in HandlersOf(o) :
        (HandlersOf(o) = {h} /\ handlers[h].state = "done") =>
            LET N     == Len(InputUrls(o))
                items == arnft[o].controllers.items
            IN  /\ Cardinality(WorkersOf(o)) = N
                /\ Len(items) = N
                /\ \A i \in 1..N :
                      /\ items[i] \in WorkersBy(h)
                      /\ \A j \in 1..N : items[i] = items[j] => i = j
                      /\ workers[items[i]].markerUrl = InputUrls(o)[i]
                      /\ workers[items[i]].name = InputNames(o)[i]
                      /\ workers[items[i]].width = arnft[o].width
                      /\ workers[items[i]].height = arnft[o].height
                      /\ workers[items[i]].uuid = arnft[o].uuid

C1_Witness ==
    \E o \in Orchs : \E h \in HandlersOf(o) :
        /\ HandlersOf(o) = {h}
        /\ handlers[h].state = "done"
        /\ Len(InputUrls(o)) = 2
        /\ Len(arnft[o].controllers.items) = 2

\* C2: a listener run whose Camera View initialization rejected has constructed
\* no session, has called initialize or process on no session, and has started
\* no loop.
C2_NoSessionOnReject ==
    \A h \in 1..Len(handlers) :
        handlers[h].state = "rejected" =>
            /\ WorkersBy(h) = {}
            /\ \A l \in 1..Len(loops) : loops[l].handler # h
            /\ \A w \in 1..Len(workers) : \A p \in 1..Len(workers[w].trace) :
                  workers[w].trace[p].by # h

C2_Witness ==
    \E h \in 1..Len(handlers) :
        /\ handlers[h].state = "rejected"
        /\ Len(arnft[handlers[h].orch].markerUrls) = 2

\* C3 (as claimed): when Camera View initialization rejects, the promise init or
\* initWithEntities returned is rejected with false.
C3_InitRejectsFalse ==
    \A h \in 1..Len(handlers) :
        handlers[h].state = "rejected" =>
            promise[handlers[h].orch] = [state |-> "rejected", value |-> "false"]

\* C4 (as claimed): dispose() on an orchestrator that has no Camera View and no
\* Session Set yet raises no error.
C4_DisposeBeforeConfigSafe ==
    \A o \in Orchs :
        ( /\ lastCall.op = "dispose"
          /\ lastCall.orch = o
          /\ arnft[o].cameraView = 0
          /\ ~arnft[o].controllers.defined ) => ~lastCall.threw

\* C5: a dispose() call on an orchestrator whose Camera View and sessions exist
\* issues one destroy call, on that Camera View, and one global stop call.
C5_DisposeOnce ==
    [][ \A o \in Orchs :
          ( /\ lastCall'.seq = lastCall.seq + 1
            /\ lastCall'.op = "dispose"
            /\ lastCall'.orch = o
            /\ arnft[o].cameraView # 0
            /\ arnft[o].controllers.items # << >> ) =>
              /\ ~lastCall'.threw
              /\ stopCalls' = stopCalls + 1
              /\ Len(cameras') = Len(cameras)
              /\ \A c \in 1..Len(cameras) :
                    cameras'[c].destroyCalls =
                        cameras[c].destroyCalls + (IF c = arnft[o].cameraView THEN 1 ELSE 0)
      ]_vars

C5_Witness ==
    /\ lastCall.op = "dispose"
    /\ lastCall.seq = 1
    /\ ~lastCall.threw
    /\ arnft[lastCall.orch].controllers.items # << >>
    /\ stopCalls = 1
    /\ cameras[arnft[lastCall.orch].cameraView].destroyCalls = 1

\* C6 (as claimed): a dispose() call that repeats a dispose() call on the same
\* orchestrator raises no error and changes neither the orchestrator nor which
\* Camera Views are destroyed and which sessions are halted.
C6_DisposeIdempotent ==
    [][ \A o \in Orchs :
          ( /\ lastCall.op = "dispose"
            /\ lastCall.orch = o
            /\ lastCall'.seq = lastCall.seq + 1
            /\ lastCall'.op = "dispose"
            /\ lastCall'.orch = o ) =>
              /\ ~lastCall'.threw
              /\ arnft' = arnft
              /\ Destroyed' = Destroyed
              /\ Halted' = Halted
      ]_vars

\* C7: the promise of init / initWithEntities is fulfilled with the orchestrator
\* before any other task runs, so before config-ready; as long as config-ready
\* has not fired for the orchestrator it has no config, no Camera View, no
\* Session Set, no session and no loop.
C7_ResolvesBeforeConfig ==
    \A o \in Orchs :
        arnft[o].via.op # "new" =>
            /\ NoMicrotask => promise[o] = [state |-> "fulfilled", value |-> "this"]
            /\ HandlersOf(o) # {} => promise[o].state = "fulfilled"
            /\ HandlersOf(o) = {} =>
                  /\ arnft[o].appData = Undefined
                  /\ arnft[o].cameraView = 0
                  /\ ~arnft[o].controllers.defined
                  /\ \A c \in 1..Len(cameras) : cameras[c].owner # o
                  /\ \A w \in 1..Len(workers) : workers[w].uuid # arnft[o].uuid
                  /\ LoopsOf(o) = {}

C7_Witness ==
    \E o \in Orchs :
        /\ promise[o] = [state |-> "fulfilled", value |-> "this"]
        /\ HandlersOf(o) = {}
        /\ workers # << >>

\* C8: getEntities() returns the entity list of the most recent initWithEntities
\* call, whatever init calls were made since, and undefined when there was none.
C8_GetEntitiesLast ==
    LET W == { o \in Orchs : arnft[o].via.op = "initWithEntities" }
    IN  IF W = {} THEN ~getEntities.defined
        ELSE /\ getEntities.defined
             /\ getEntities.list = arnft[Max(W)].via.entities

C8_Witness ==
    \E o1, o2, o3 \in Orchs :
        /\ o1 < o2
        /\ o2 <= o3
        /\ arnft[o1].via.op = "initWithEntities"
        /\ arnft[o2].via.op = "initWithEntities"
        /\ arnft[o1].via.entities # arnft[o2].via.entities
        /\ getEntities.list = arnft[o2].via.entities
        /\ (o3 # o2 => arnft[o3].via.op = "init")

\* C9: on every session, a process call made by a loop comes after a priming
\* process call, which comes after an initialize call.
C9_PrimedBeforeLoop ==
    \A w \in 1..Len(workers) :
        LET t == workers[w].trace
        IN  \A p \in 1..Len(t) :
               t[p].op = "tick" =>
                  \E q \in 1..(p - 1) :
                     /\ t[q].op = "process"
                     /\ \E r \in 1..(q - 1) : t[r].op = "initialize"

C9_Witness ==
    \E w \in 1..Len(workers) :
        /\ Len(workers[w].trace) >= 4
        /\ workers[w].trace[4].op = "tick"

\* C10: a setFPS call changes the stored period of its orchestrator and nothing
\* else: not the Session Set, the Camera View, the listeners, the loops or the
\* frame callbacks waiting.
C10_SetFPSOnlyPeriod ==
    [][ ( /\ lastCall'.seq = lastCall.seq + 1
          /\ lastCall'.op = "setFPS" ) =>
            /\ Len(arnft') = Len(arnft)
            /\ \A o \in Orchs :
                  /\ [arnft'[o] EXCEPT !._fps = arnft[o]._fps] = arnft[o]
                  /\ o # lastCall'.orch => arnft'[o] = arnft[o]
            /\ UNCHANGED << entities, promise, initEvents, loads, listeners, handlers,
                            cameras, workers, loops, rafQueue, frames, stopCalls >>
      ]_vars

C10_Witness ==
    /\ lastCall.op = "setFPS"
    /\ rafQueue # << >>
    /\ arnft[lastCall.orch]._fps = Quotient(1000, 30)
    /\ LoopsOf(lastCall.orch) # {}

\* C11: setFPS(v) stores the period 1000/v for every v > 0 (the stored
\* fraction p satisfies p * v = 1000), it does not throw for v = 0 or for a
\* negative v, and an orchestrator on which no method has been called since
\* its construction holds the period 1000/15.
C11_SetFPSPeriod ==
    /\ lastCall.seq = 0 =>
          \A o \in Orchs :
              /\ arnft[o]._fps.den > 0
              /\ arnft[o]._fps.num * 15 = 1000 * arnft[o]._fps.den
    /\ lastCall.op = "setFPS" =>
          /\ ~ lastCall.threw
          /\ lastCall.arg > 0 =>
                /\ arnft[lastCall.orch]._fps.den > 0
                /\ arnft[lastCall.orch]._fps.num * lastCall.arg
                       = 1000 * arnft[lastCall.orch]._fps.den

C11_Witness ==
    /\ lastCall.op = "setFPS"
    /\ lastCall.arg = 30
    /\ arnft[lastCall.orch]._fps = [num |-> 100, den |-> 3]
    /\ \E o \in Orchs : o # lastCall.orch /\ arnft[o]._fps = [num |-> 200, den |-> 3]

\* C12: constructing an orchestrator only allocates its identity and sets the
\* default period: the step that adds an instance made by the bare constructor
\* emits no event, requests no config load, registers no listener, creates no
\* Camera View and no session, and the new instance has no Camera View, no
\* Session Set and no config.
C12_ConstructorFrame ==
    [][ ( /\ Len(arnft') = Len(arnft) + 1
          /\ arnft'[Len(arnft')].via.op = "new" ) =>
            /\ \A o \in Orchs : arnft'[o] = arnft[o]
            /\ arnft'[Len(arnft')].uuid \notin { arnft[o].uuid : o \in Orchs }
            /\ arnft'[Len(arnft')]._fps.num * 15 = 1000 * arnft'[Len(arnft')]._fps.den
            /\ arnft'[Len(arnft')].cameraView = 0
            /\ ~ arnft'[Len(arnft')].controllers.defined
            /\ arnft'[Len(arnft')].appData = Undefined
            /\ UNCHANGED << entities, initEvents, loads, listeners, handlers, cameras,
                            workers, loops, rafQueue, frames, stopCalls, lastCall >>
      ]_vars

C12_Witness ==
    /\ Len(arnft) = 2
    /\ arnft[2].via.op = "new"
    /\ arnft[1].via.op = "init"
    /\ Len(listeners) = 1
    /\ Len(cameras) = 1
    /\ initEvents = 1

\* the runs of the listener of orchestrator o were handled one after another,
\* the Camera View succeeding each time
Sequential(o) ==
    /\ HandlersOf(o) # {}
    /\ \A h \in HandlersOf(o) : handlers[h].state = "done" /\ ~ handlers[h].overlaps

\* the loops of orchestrator o that are still rescheduling themselves
Running(o) ==
    { l \in LoopsOf(o) : loops[l].alive /\ \E i \in 1..Len(rafQueue) : rafQueue[i] = l }

\* the Session Set of o is the N sessions of its latest run, in descriptor order
LatestOnly(o) ==
    /\ Len(arnft[o].controllers.items) = Len(arnft[o].markerUrls)
    /\ \A i \in 1..Len(arnft[o].controllers.items) :
          LET w == workers[arnft[o].controllers.items[i]]
          IN  /\ w.handler = Max(HandlersOf(o))
              /\ w.markerUrl = arnft[o].markerUrls[i]

\* C13: the listener stays registered, and after k config-ready events handled
\* one after another, the Camera View succeeding each time, k*N sessions have
\* been constructed, k*N loops are running and the Session Set holds only the N
\* sessions of the latest run.
C13_AllLoopsRunning ==
    \A o \in Orchs :
        Sequential(o) =>
            /\ Rank(listeners, o) # 0
            /\ Cardinality(WorkersOf(o))
                   = Cardinality(HandlersOf(o)) * Len(arnft[o].markerUrls)
            /\ Cardinality(Running(o))
                   = Cardinality(HandlersOf(o)) * Len(arnft[o].markerUrls)
            /\ LatestOnly(o)

\* the frame callback served makes its process call: on the session at the
\* loop's index of the Session Set, with a frame of the current Camera View,
\* destroyed or not, the session halted or not
Processes(l) ==
    LET this == arnft[loops[l].orch]
        w    == this.controllers.items[loops[l].index]
    IN  /\ Len(workers') = Len(workers)
        /\ Len(workers'[w].trace) = Len(workers[w].trace) + 1
        /\ workers'[w].trace[Len(workers'[w].trace)].op = "tick"
        /\ workers'[w].trace[Len(workers'[w].trace)].cam = this.cameraView
        /\ workers'[w].trace[Len(workers'[w].trace)].halted = workers[w].halted

\* no call of dispose, disposeNFT, disposeVideoStream or setFPS touches a loop
\* or a frame callback waiting
CallsKeepLoops ==
    lastCall'.seq = lastCall.seq + 1 => UNCHANGED << loops, rafQueue >>

\* C14: once a loop has started, every frame callback served processes its
\* session, with a frame of the current Camera View, destroyed or not, and
\* reschedules itself, and no call of dispose, disposeNFT, disposeVideoStream
\* or setFPS stops a loop.
C14_EveryTickReschedules ==
    [][ /\ CallsKeepLoops
        /\ frames' = frames + 1 =>
              /\ loops[Head(rafQueue)].index
                     \in 1..Len(arnft[loops[Head(rafQueue)].orch].controllers.items)
              /\ Processes(Head(rafQueue))
              /\ loops' = loops
              /\ rafQueue' = Append(Tail(rafQueue), Head(rafQueue))
      ]_vars

\* C15: after a dispose() that returned, the Session Set of the orchestrator
\* is destroyed: it holds no Tracking Worker Session.
C15_SessionSetDestroyed ==
    ( /\ lastCall.op = "dispose"
      /\ ~ lastCall.threw ) =>
        arnft[lastCall.orch].controllers.items = << >>

\* listener run h initialized, primed and ticked session x, in that order and
\* with nothing between, while session w was the last one constructed
StartedAt(x, p, h, w) ==
    /\ p + 2 <= Len(workers[x].trace)
    /\ \A q \in p..(p + 2) : workers[x].trace[q].by = h /\ workers[x].trace[q].n = w
    /\ workers[x].trace[p].op = "initialize"
    /\ workers[x].trace[p + 1].op = "process"
    /\ workers[x].trace[p + 2].op = "tick"

\* C16: within one handling of config-ready the sessions are started in
\* descriptor order: the handling constructs N sessions, the i-th bound to
\* descriptor i, and each session it constructs is initialized, primed and
\* ticked by it, in that order, before it constructs the next, the loop of
\* index i being created before the loop of index i + 1.
C16_StartedInOrder ==
    \A h \in 1..Len(handlers) :
        handlers[h].state = "done" =>
          /\ Cardinality(WorkersBy(h)) = Len(arnft[handlers[h].orch].markerUrls)
          /\ \A w \in WorkersBy(h) :
                LET i == Cardinality({ v \in WorkersBy(h) : v <= w })
                IN  /\ workers[w].markerUrl = arnft[handlers[h].orch].markerUrls[i]
                    /\ i > 1 => (w - 1) \in WorkersBy(h)
                    /\ StartedAt(w, 1, h, w)
                    /\ \E l \in 1..Len(loops) :
                          /\ loops[l].handler = h
                          /\ loops[l].index = i
                          /\ \A m \in 1..Len(loops) :
                                (loops[m].handler = h /\ loops[m].index < i) => m < l

\* C17: a disposeVideoStream() call issues the destroy call of the
\* orchestrator's Camera View (it throws when there is none, C4) and no stop
\* call; a disposeNFT() call issues one global stop call, after which the
\* sessions of every orchestrator are halted, and no destroy call.
C17_PartialTeardown ==
    [][ lastCall'.seq = lastCall.seq + 1 =>
          /\ lastCall'.op = "disposeVideoStream" =>
                /\ stopCalls' = stopCalls
                /\ workers' = workers
                /\ IF arnft[lastCall'.orch].cameraView = 0
                   THEN cameras' = cameras /\ lastCall'.threw
                   ELSE /\ ~ lastCall'.threw
                        /\ cameras' = [cameras EXCEPT
                                         ![arnft[lastCall'.orch].cameraView].destroyCalls
                                             = @ + 1]
          /\ lastCall'.op = "disposeNFT" =>
                /\ ~ lastCall'.threw
                /\ stopCalls' = stopCalls + 1
                /\ cameras' = cameras
                /\ Len(workers') = Len(workers)
                /\ \A w \in 1..Len(workers) :
                      workers'[w] = [workers[w] EXCEPT !.halted = TRUE]
      ]_vars

C17_Witness ==
    /\ lastCall.op = "disposeNFT"
    /\ stopCalls = 1
    /\ Destroyed = {}
    /\ \E o \in Orchs : o # lastCall.orch /\ WorkersOf(o) # {} /\ WorkersOf(o) \subseteq Halted
    /\ WorkersOf(lastCall.orch) # {}
    /\ WorkersOf(lastCall.orch) \subseteq Halted

\* C18: once dispose() has returned on an orchestrator, no step constructs or
\* initializes a session for it or starts a loop for it, whether a listener run
\* was suspended at the time or a config-ready event comes later.
C18_NothingAfterDispose ==
    [][ ( /\ lastCall.op = "dispose"
          /\ ~ lastCall.threw ) =>
            /\ \A w \in 1..Len(workers') :
                  /\ w > Len(workers) =>
                        handlers'[workers'[w].handler].orch # lastCall.orch
                  /\ w <= Len(workers) =>
                        \A p \in 1..Len(workers'[w].trace) :
                            ( /\ p > Len(workers[w].trace)
                              /\ workers'[w].trace[p].op = "initialize" ) =>
                                handlers'[workers'[w].trace[p].by].orch # lastCall.orch
            /\ \A l \in 1..Len(loops') :
                  l > Len(loops) => loops'[l].orch # lastCall.orch
      ]_vars

\* C19: in every reachable state every constructed session has had initialize
\* called exactly once, before any process call, the Session Set holds at most
\* N sessions, and the session at its index i is bound to descriptor i.
C19_InitializedOnceAligned ==
    /\ \A w \in 1..Len(workers) :
          /\ Len(workers[w].trace) >= 1
          /\ workers[w].trace[1].op = "initialize"
          /\ \A p \in 2..Len(workers[w].trace) : workers[w].trace[p].op # "initialize"
    /\ \A o \in Orchs :
          /\ Len(arnft[o].controllers.items) <= Len(arnft[o].markerUrls)
          /\ \A i \in 1..Len(arnft[o].controllers.items) :
                /\ i <= Len(arnft[o].markerUrls)
                /\ workers[arnft[o].controllers.items[i]].markerUrl = arnft[o].markerUrls[i]
                /\ workers[arnft[o].controllers.items[i]].name = At(arnft[o].names, i)

\* C20: the listener does not filter by orchestrator: each config-ready event,
\* whichever load it answers, starts one run of step 3 in every orchestrator
\* whose listener is registered (its Session Set is emptied, a Camera View of
\* its own is created and awaited), so two orchestrators registered before two
\* events each run step 3 twice.
C20_EveryListenerRuns ==
    [][ Len(loads') = Len(loads) - 1 =>
          /\ Len(handlers') = Len(handlers) + Len(listeners)
          /\ Len(cameras') = Len(cameras) + Len(listeners)
          /\ \A j \in 1..Len(listeners) :
                LET run == handlers'[Len(handlers) + j]
                IN  /\ run.orch = listeners[j]
                    /\ run.state = "awaiting"
                    /\ run.camera > Len(cameras)
                    /\ cameras'[run.camera].owner = listeners[j]
                    /\ arnft'[listeners[j]].cameraView = run.camera
                    /\ arnft'[listeners[j]].controllers = [defined |-> TRUE, items |-> << >>]
                    /\ \A i \in 1..Len(listeners) : listeners[i] = listeners[j] => i = j
      ]_vars

C20_Witness ==
    /\ Len(listeners) = 2
    /\ initEvents = 2
    /\ loads = << >>
    /\ \A o \in Orchs :
          /\ Cardinality(HandlersOf(o)) = 2
          /\ \A h \in HandlersOf(o) : handlers[h].state = "done"
          /\ Cardinality(WorkersOf(o)) = 2 * Len(arnft[o].markerUrls)

====
